---------------------------- MODULE Spec2Model ----------------------------
(***************************************************************************)
(* GAMESS output parsing: the line scanners of src/GAMESS/parse.py         *)
(* (parse_gamess_output, one pass) and of src/GAMESS/parse-gamess-output.py *)
(* (get_reference, parse_mo_data, get_ccsd, get_pointgroup, get_calc,       *)
(* parse_eom_states: one loop each over the same list of lines).            *)
(*                                                                         *)
(* A line is a sequence of one-character strings, as readlines() returns   *)
(* it (terminating "\n" included).  The text operations and the regular    *)
(* expressions of the source are computed on the characters.               *)
(***************************************************************************)
EXTENDS Integers, Sequences, FiniteSets, TLC

(***************************************************************************)
(* Python values.  An optional value (None or v) is the sequence <<>> or   *)
(* <<v>>.                                                                  *)
(***************************************************************************)
None == <<>>

Some(v) == <<v>>

IsNone(o) == o = <<>>

(***************************************************************************)
(* Characters.                                                             *)
(***************************************************************************)
Whitespace == {" ", "\t", "\n"}

Digits == {"0", "1", "2", "3", "4", "5", "6", "7", "8", "9"}

LowerLetters ==
    <<"a","b","c","d","e","f","g","h","i","j","k","l","m",
      "n","o","p","q","r","s","t","u","v","w","x","y","z">>

UpperLetters ==
    <<"A","B","C","D","E","F","G","H","I","J","K","L","M",
      "N","O","P","Q","R","S","T","U","V","W","X","Y","Z">>

\* str.upper() on one character
UpperChar(c) ==
    IF \E i \in 1..26 : LowerLetters[i] = c
    THEN UpperLetters[CHOOSE i \in 1..26 : LowerLetters[i] = c]
    ELSE c

\* str.upper()
Upper(s) == [i \in 1..Len(s) |-> UpperChar(s[i])]

\* \w of the re module, on the characters the lines use
WordChars ==
    Digits \cup {"_"} \cup {LowerLetters[i] : i \in 1..26} \cup {UpperLetters[i] : i \in 1..26}

DigitValue(c) ==
    CASE c = "0" -> 0 [] c = "1" -> 1 [] c = "2" -> 2 [] c = "3" -> 3 [] c = "4" -> 4
      [] c = "5" -> 5 [] c = "6" -> 6 [] c = "7" -> 7 [] c = "8" -> 8 [] c = "9" -> 9

(***************************************************************************)
(* Strings.                                                                *)
(***************************************************************************)
\* the least element of a non-empty set of integers
Least(S) == CHOOSE x \in S : \A y \in S : x <= y

\* the first position >= p of s that holds no character of class (Len(s)+1 if none;
\* p itself when p is beyond that)
RunEnd(s, p, class) ==
    IF p > Len(s) THEN p
    ELSE Least({q \in p..(Len(s) + 1) : q = Len(s) + 1 \/ s[q] \notin class})

\* the first position >= p of s that holds a character of class (Len(s)+1 if none)
RunStart(s, p, class) ==
    IF p > Len(s) THEN p
    ELSE Least({q \in p..(Len(s) + 1) : q = Len(s) + 1 \/ s[q] \in class})

\* sub occurs in s at position p
OccursAt(s, p, sub) ==
    /\ p >= 1
    /\ p + Len(sub) - 1 <= Len(s)
    /\ \A k \in 1..Len(sub) : s[p + k - 1] = sub[k]

\* sub in s
Contains(s, sub) == \E p \in 1..(Len(s) + 1) : OccursAt(s, p, sub)

\* str.split(): the maximal runs of non-whitespace characters, in order
Split(s) ==
    LET starts == {b \in 1..Len(s) : s[b] \notin Whitespace /\ (b = 1 \/ s[b - 1] \in Whitespace)}
        nth(k) == CHOOSE b \in starts : Cardinality({x \in starts : x < b}) = k - 1
    IN  [k \in 1..Cardinality(starts) |-> SubSeq(s, nth(k), RunStart(s, nth(k), Whitespace) - 1)]

\* not line.strip(): the line holds whitespace only
IsBlank(s) == \A i \in 1..Len(s) : s[i] \in Whitespace

\* str.replace(old, new) with a one-character old: every occurrence is replaced by new
Replace(s, old, new) ==
    LET R[i \in 0..Len(s)] ==
            IF i = 0 THEN <<>> ELSE R[i - 1] \o (IF s[i] = old THEN new ELSE <<s[i]>>)
    IN  R[Len(s)]

(***************************************************************************)
(* Numbers.  int(s) of a run of digits is its value.  float(s) is the      *)
(* decimal number s spells, kept exactly: [neg, digits, exp] stands for    *)
(* (+/-) 0.d1 d2 ... dn * 10^exp with d1 and dn not zero (zero: no digits).*)
(* Two spellings of one number ("-1.3E+00", "-1.30") give one value.       *)
(***************************************************************************)
IntOf(ds) ==
    LET V[i \in 0..Len(ds)] == IF i = 0 THEN 0 ELSE 10 * V[i - 1] + DigitValue(ds[i])
    IN  V[Len(ds)]

StripLeadingZeros(ds) == SubSeq(ds, RunEnd(ds, 1, {"0"}), Len(ds))

StripTrailingZeros(ds) ==
    LET e == CHOOSE k \in 0..Len(ds) :
                 /\ k = 0 \/ ds[k] # "0"
                 /\ \A j \in (k + 1)..Len(ds) : ds[j] = "0"
    IN  SubSeq(ds, 1, e)

\* float(t): <<>> when t spells no decimal number (ValueError), else <<value>>
Float(t) ==
    LET n      == Len(t)
        signed == n > 0 /\ t[1] \in {"+", "-"}
        p0     == IF signed THEN 2 ELSE 1
        p1     == RunEnd(t, p0, Digits)
        hasDot == p1 <= n /\ t[p1] = "."
        p2     == IF hasDot THEN RunEnd(t, p1 + 1, Digits) ELSE p1
        intD   == SubSeq(t, p0, p1 - 1)
        fracD  == IF hasDot THEN SubSeq(t, p1 + 1, p2 - 1) ELSE <<>>
        hasExp == p2 <= n /\ t[p2] \in {"e", "E"}
        eSign  == hasExp /\ p2 + 1 <= n /\ t[p2 + 1] \in {"+", "-"}
        p3     == IF eSign THEN p2 + 2 ELSE p2 + 1
        p4     == IF hasExp THEN RunEnd(t, p3, Digits) ELSE p2
        expo   == IF hasExp
                  THEN (IF eSign /\ t[p2 + 1] = "-" THEN -1 ELSE 1) * IntOf(SubSeq(t, p3, p4 - 1))
                  ELSE 0
        ok     == Len(intD) + Len(fracD) > 0 /\ (hasExp => p4 > p3) /\ p4 = n + 1
        all    == intD \o fracD
        lead   == StripLeadingZeros(all)
        sig    == StripTrailingZeros(lead)
    IN  IF ~ok THEN <<>>
        ELSE IF sig = <<>> THEN <<[neg |-> FALSE, digits |-> <<>>, exp |-> 0]>>
        ELSE <<[neg    |-> signed /\ t[1] = "-",
                digits |-> sig,
                exp    |-> Len(intD) + expo - (Len(all) - Len(lead))]>>

(***************************************************************************)
(* Regular expressions.  A matcher returns the position after the match,   *)
(* or 0 when there is none; a failed position (0) fails what follows it.   *)
(***************************************************************************)
\* a literal under re.IGNORECASE, at position p
LitCI(s, p, w) ==
    IF /\ p >= 1
       /\ p + Len(w) - 1 <= Len(s)
       /\ \A k \in 1..Len(w) : UpperChar(s[p + k - 1]) = UpperChar(w[k])
    THEN p + Len(w) ELSE 0

\* \s+ at position p
Ws1(s, p) == IF p >= 1 /\ p <= Len(s) /\ s[p] \in Whitespace THEN RunEnd(s, p, Whitespace) ELSE 0

\* \s* at position p
Ws0(s, p) == IF p >= 1 THEN RunEnd(s, p, Whitespace) ELSE 0

\* [class]+ at position p (greedy)
Cls1(s, p, class) == IF p >= 1 /\ p <= Len(s) /\ s[p] \in class THEN RunEnd(s, p, class) ELSE 0

\* \S+ at position p (greedy)
NonWs1(s, p) ==
    IF p >= 1 /\ p <= Len(s) /\ s[p] \notin Whitespace THEN RunStart(s, p, Whitespace) ELSE 0

\* w1\s+w2\s+...\s+wn under re.IGNORECASE, at position p
WordsAt(s, p, ws) ==
    LET E[k \in 0..Len(ws)] ==
            IF k = 0 THEN p
            ELSE LET prev  == E[k - 1]
                     start == IF k = 1 THEN p ELSE Ws1(s, prev)
                 IN  LitCI(s, start, ws[k])
    IN  E[Len(ws)]

\* the characters [-\d\.] of the energy groups
NumChars == Digits \cup {"-", "."}

W_FINAL == <<"F","I","N","A","L">>

W_ROHF == <<"R","O","H","F">>

W_UHF == <<"U","H","F">>

W_HF == <<"H","F">>

W_ENERGY == <<"E","N","E","R","G","Y">>

W_IS == <<"I","S">>

W_REFERENCE_ENERGY == <<"R","E","F","E","R","E","N","C","E"," ","E","N","E","R","G","Y",":">>

W_CCSD == <<"C","C","S","D">>

W_ENERGY_COLON == <<"E","N","E","R","G","Y",":">>

W_THE == <<"T","H","E">>

W_POINT == <<"P","O","I","N","T">>

W_GROUP == <<"G","R","O","U","P">>

W_OF == <<"O","F">>

W_MOLECULE == <<"M","O","L","E","C","U","L","E">>

W_ORDER == <<"O","R","D","E","R">>

W_PRINCIPAL == <<"P","R","I","N","C","I","P","A","L">>

W_AXIS == <<"A","X","I","S">>

W_CONVERGED == <<"C","O","N","V","E","R","G","E","D">>

W_SUMMARY == <<"S","U","M","M","A","R","Y">>

W_EOMCC == <<"E","O","M","C","C">>

W_CALCULATIONS == <<"C","A","L","C","U","L","A","T","I","O","N","S">>

W_BEGINNING == <<"B","E","G","I","N","N","I","N","G">>

W_ITERATIONS == <<"I","T","E","R","A","T","I","O","N","S">>

W_FOR == <<"F","O","R">>

W_STATE == <<"S","T","A","T","E">>

\* re_ref at position i: the end of the prefix before the group, or 0.
\* (?:FINAL\s+(?:ROHF|UHF|HF)\s+ENERGY\s+IS\s+|\bREFERENCE ENERGY:\s+)
re_ref_prefix(s, i) ==
    LET final  == LitCI(s, i, W_FINAL)
        method == Ws1(s, final)
        rohf   == LitCI(s, method, W_ROHF)
        uhf    == LitCI(s, method, W_UHF)
        hf     == LitCI(s, method, W_HF)
        kind   == IF rohf # 0 THEN rohf ELSE IF uhf # 0 THEN uhf ELSE hf
        energy == Ws1(s, kind)
        is     == WordsAt(s, energy, <<W_ENERGY, W_IS>>)
        alt1   == Ws1(s, is)
        bnd    == i = 1 \/ (i <= Len(s) + 1 /\ s[i - 1] \notin WordChars)
        label  == LitCI(s, i, W_REFERENCE_ENERGY)
        alt2   == IF bnd THEN Ws1(s, label) ELSE 0
    IN  IF final # 0 /\ alt1 # 0 THEN alt1 ELSE alt2

\* re_ref.search(line): None, or group(1) of the leftmost match
re_ref(s) ==
    LET hits == {i \in 1..Len(s) : Cls1(s, re_ref_prefix(s, i), NumChars) # 0}
    IN  IF hits = {} THEN None
        ELSE LET g == re_ref_prefix(s, Least(hits))
             IN  Some(SubSeq(s, g, Cls1(s, g, NumChars) - 1))

\* re_ccsd.search(line): ^\s*CCSD\s+ENERGY:\s+([-\d\.]+), None or group(1)
re_ccsd(s) ==
    LET g == Ws1(s, WordsAt(s, Ws0(s, 1), <<W_CCSD, W_ENERGY_COLON>>))
        e == Cls1(s, g, NumChars)
    IN  IF e = 0 THEN None ELSE Some(SubSeq(s, g, e - 1))

\* re_pg.search(line): THE\s+POINT\s+GROUP\s+OF\s+THE\s+MOLECULE\s+IS\s+(\S+)
re_pg_prefix(s, i) ==
    Ws1(s, WordsAt(s, i, <<W_THE, W_POINT, W_GROUP, W_OF, W_THE, W_MOLECULE, W_IS>>))

re_pg(s) ==
    LET hits == {i \in 1..Len(s) : NonWs1(s, re_pg_prefix(s, i)) # 0}
    IN  IF hits = {} THEN None
        ELSE LET g == re_pg_prefix(s, Least(hits))
             IN  Some(SubSeq(s, g, NonWs1(s, g) - 1))

\* re_axis_order.search(line): THE\s+ORDER\s+OF\s+THE\s+PRINCIPAL\s+AXIS\s+IS\s+(\d+)
re_axis_order_prefix(s, i) ==
    Ws1(s, WordsAt(s, i, <<W_THE, W_ORDER, W_OF, W_THE, W_PRINCIPAL, W_AXIS, W_IS>>))

re_axis_order(s) ==
    LET hits == {i \in 1..Len(s) : Cls1(s, re_axis_order_prefix(s, i), Digits) # 0}
    IN  IF hits = {} THEN None
        ELSE LET g == re_axis_order_prefix(s, Least(hits))
             IN  Some(SubSeq(s, g, Cls1(s, g, Digits) - 1))

\* re_eom_state.match(line):
\* ^\s*(\d+)\s+(\d+)\s+([-\d\.]+)\s+([-\d\.]+)\s+CONVERGED
\* None, or the four groups
re_eom_state(s) ==
    LET g1 == Ws0(s, 1)
        e1 == Cls1(s, g1, Digits)
        g2 == Ws1(s, e1)
        e2 == Cls1(s, g2, Digits)
        g3 == Ws1(s, e2)
        e3 == Cls1(s, g3, NumChars)
        g4 == Ws1(s, e3)
        e4 == Cls1(s, g4, NumChars)
        c  == LitCI(s, Ws1(s, e4), W_CONVERGED)
    IN  IF c = 0 THEN None
        ELSE Some(<<SubSeq(s, g1, e1 - 1), SubSeq(s, g2, e2 - 1),
                    SubSeq(s, g3, e3 - 1), SubSeq(s, g4, e4 - 1)>>)

\* a variant of the summary pattern below with one slip: the method name is
\* not looked at, SUMMARY\s+OF\s+.*\s+CALCULATIONS
re_eom_summary_begin_anymethod(s) ==
    \E i \in 1..Len(s) :
        LET a == WordsAt(s, i, <<W_SUMMARY, W_OF>>)
        IN  /\ a # 0
            /\ \E m \in (a + 1)..(Len(s) + 1) : \E q \in m..(Len(s) + 1) :
                 /\ \A k \in a..(m - 1) : s[k] \in Whitespace
                 /\ \A k \in m..(q - 1) : s[k] # "\n"
                 /\ LitCI(s, Ws1(s, q), W_CALCULATIONS) # 0

\* re_eom_summary_begin.search(line): SUMMARY\s+OF\s+.*EOMCC\s+CALCULATIONS
\* (\s+ takes a..m-1, .* takes m..q-1 and no newline)
re_eom_summary_begin(s) ==
    \E i \in 1..Len(s) :
        LET a == WordsAt(s, i, <<W_SUMMARY, W_OF>>)
        IN  /\ a # 0
            /\ \E m \in (a + 1)..(Len(s) + 1) : \E q \in m..(Len(s) + 1) :
                 /\ \A k \in a..(m - 1) : s[k] \in Whitespace
                 /\ \A k \in m..(q - 1) : s[k] # "\n"
                 /\ WordsAt(s, q, <<W_EOMCC, W_CALCULATIONS>>) # 0

\* get_calc's pattern.search(line):
\* BEGINNING\s+(.*?)\s+ITERATIONS\s+FOR\s+STATE\s+(\d+), None or group(1).
\* \s+ is greedy (the largest m first), (.*?) is lazy (then the least q).
get_calc_pattern(s) ==
    LET ok(i, m, q) ==
            LET a == LitCI(s, i, W_BEGINNING)
            IN  /\ a # 0 /\ m > a
                /\ \A k \in a..(m - 1) : s[k] \in Whitespace
                /\ \A k \in m..(q - 1) : s[k] # "\n"
                /\ Cls1(s, Ws1(s, WordsAt(s, Ws1(s, q), <<W_ITERATIONS, W_FOR, W_STATE>>)),
                        Digits) # 0
        pos   == 1..(Len(s) + 1)
        hits  == {i \in pos : LitCI(s, i, W_BEGINNING) # 0
                               /\ \E m \in pos : \E q \in m..(Len(s) + 1) : ok(i, m, q)}
    IN  IF hits = {} THEN None
        ELSE LET i == Least(hits)
                 ms == {m \in pos : \E q \in m..(Len(s) + 1) : ok(i, m, q)}
                 m == CHOOSE x \in ms : \A y \in ms : y <= x
                 q == Least({x \in m..(Len(s) + 1) : ok(i, m, x)})
             IN  Some(SubSeq(s, m, q - 1))

\* irreps_pattern.match(tok): ^[AB]\d?[g-uG-U](?:\(\d+\))?$
ParityLetters ==
    {"g","h","i","j","k","l","m","n","o","p","q","r","s","t","u",
     "G","H","I","J","K","L","M","N","O","P","Q","R","S","T","U"}

irreps_pattern(t) ==
    /\ Len(t) >= 2
    /\ t[1] \in {"A", "B"}
    /\ LET p == IF t[2] \in Digits THEN 3 ELSE 2
       IN  /\ p <= Len(t)
           /\ t[p] \in ParityLetters
           /\ \/ p = Len(t)
              \/ /\ p + 1 <= Len(t)
                 /\ t[p + 1] = "("
                 /\ LET e == Cls1(t, p + 2, Digits)
                    IN  e # 0 /\ e = Len(t) /\ t[e] = ")"

(***************************************************************************)
(* The helpers of the orbital block (the same in both files).              *)
(***************************************************************************)
\* the floats of a list of tokens; None as soon as one token raises ValueError
FloatsOf(tokens) ==
    LET val(k) == Float(Replace(tokens[k], "D", <<"E">>))
    IN  IF \E k \in 1..Len(tokens) : IsNone(val(k)) THEN None
        ELSE Some([k \in 1..Len(tokens) |-> val(k)[1]])

\* parse_float_line(line): None, or the list of floats
parse_float_line(line) == FloatsOf(Split(line))

\* line_is_irrep_list(line)
line_is_irrep_list(line) ==
    LET tokens == Split(line)
    IN  tokens # <<>> /\ \A k \in 1..Len(tokens) : irreps_pattern(tokens[k])

\* ("EIGENVECTOR" in upper_line) or ("MOLECULAR ORBITALS" in upper_line)
is_mo_landmark(line) ==
    \/ Contains(Upper(line), <<"E","I","G","E","N","V","E","C","T","O","R">>)
    \/ Contains(Upper(line),
                <<"M","O","L","E","C","U","L","A","R"," ","O","R","B","I","T","A","L","S">>)

(***************************************************************************)
(* Truth of a Python value used as a condition: None and the empty list    *)
(* (or string) are false.                                                  *)
(***************************************************************************)
Truthy(o) == o # None /\ o[1] # <<>>

\* str.strip()
Strip(s) ==
    LET b == RunEnd(s, 1, Whitespace)
        e == CHOOSE k \in 0..Len(s) :
                 /\ k = 0 \/ s[k] \notin Whitespace
                 /\ \A j \in (k + 1)..Len(s) : s[j] \in Whitespace
    IN  SubSeq(s, b, e)

\* the substrings the scalar loops look for
S_REFERENCE_ENERGY ==
    <<"R","E","F","E","R","E","N","C","E"," ","E","N","E","R","G","Y",":"," "," "," "," "," ">>

S_CCSD_ENERGY == <<"C","C","S","D"," ","E","N","E","R","G","Y",":">>

S_POINT_GROUP ==
    <<"T","H","E"," ","P","O","I","N","T"," ","G","R","O","U","P"," ","O","F"," ","T","H","E"," ",
      "M","O","L","E","C","U","L","E"," ","I","S"," ">>

S_AXIS_ORDER ==
    <<"T","H","E"," ","O","R","D","E","R"," ","O","F"," ","T","H","E"," ","P","R","I","N","C","I",
      "P","A","L"," ","A","X","I","S"," ","I","S"," ">>

\* the two literals of proceed_further's condition
S_eominp == <<"e","o","m","i","n","p">>

S_EOMINP == <<"E","O","M","I","N","P">>

(***************************************************************************)
(* The input lines the scanners are run on.                                *)
(***************************************************************************)

\* '          EIGENVECTORS\n'
L_EIGEN ==
    <<" "," "," "," "," "," "," "," "," "," ","E","I","G","E","N","V","E","C","T","O","R","S",
      "\n">>

\* '   Molecular Orbitals\n'
L_MOLORB ==
    <<" "," "," ","M","o","l","e","c","u","l","a","r"," ","O","r","b","i","t","a","l","s","\n">>

\* '  \n'
L_BLANK ==
    <<" "," ","\n">>

\* '   -20.5   -1.3D+00\n'
L_NUM2 ==
    <<" "," "," ","-","2","0",".","5"," "," "," ","-","1",".","3","D","+","0","0","\n">>

\* '  0.5  1.5  25.0E-1\n'
L_NUM3 ==
    <<" "," ","0",".","5"," "," ","1",".","5"," "," ","2","5",".","0","E","-","1","\n">>

\* '     A1G     B2U\n'
L_IRR2 ==
    <<" "," "," "," "," ","A","1","G"," "," "," "," "," ","B","2","U","\n">>

\* '  AG  B1U  B2G(3)\n'
L_IRR3 ==
    <<" "," ","A","G"," "," ","B","1","U"," "," ","B","2","G","(","3",")","\n">>

\* '  ------------\n'
L_DASH ==
    <<" "," ","-","-","-","-","-","-","-","-","-","-","-","-","\n">>

\* ' ---- SUMMARY OF DIP-EOMCC CALCULATIONS ----\n'
L_SUM ==
    <<" ","-","-","-","-"," ","S","U","M","M","A","R","Y"," ","O","F"," ","D","I","P","-","E",
      "O","M","C","C"," ","C","A","L","C","U","L","A","T","I","O","N","S"," ","-","-","-","-",
      "\n">>

\* '    1    1    0.25   -149.5   CONVERGED\n'
L_ST1 ==
    <<" "," "," "," ","1"," "," "," "," ","1"," "," "," "," ","0",".","2","5"," "," "," ","-",
      "1","4","9",".","5"," "," "," ","C","O","N","V","E","R","G","E","D","\n">>

\* '    2    3   -0.5    -148.0   CONVERGED\n'
L_ST2 ==
    <<" "," "," "," ","2"," "," "," "," ","3"," "," "," ","-","0",".","5"," "," "," "," ","-",
      "1","4","8",".","0"," "," "," ","C","O","N","V","E","R","G","E","D","\n">>

\* ' STATE  SPIN  IONIZATION  TOTAL\n'
L_HDR ==
    <<" ","S","T","A","T","E"," "," ","S","P","I","N"," "," ","I","O","N","I","Z","A","T","I",
      "O","N"," "," ","T","O","T","A","L","\n">>

\* '    3    1    -    1.2.3   CONVERGED\n'
L_BAD ==
    <<" "," "," "," ","3"," "," "," "," ","1"," "," "," "," ","-"," "," "," "," ","1",".","2",
      ".","3"," "," "," ","C","O","N","V","E","R","G","E","D","\n">>

\* 'REFERENCE ENERGY:     -148.79164641\n'
L_REF1 ==
    <<"R","E","F","E","R","E","N","C","E"," ","E","N","E","R","G","Y",":"," "," "," "," "," ",
      "-","1","4","8",".","7","9","1","6","4","6","4","1","\n">>

\* ' REFERENCE ENERGY:     -1.5\n'
L_REF2 ==
    <<" ","R","E","F","E","R","E","N","C","E"," ","E","N","E","R","G","Y",":"," "," "," "," ",
      " ","-","1",".","5","\n">>

\* ' FINAL ROHF ENERGY IS     -148.5 AFTER  12 ITERATIONS\n'
L_ROHF ==
    <<" ","F","I","N","A","L"," ","R","O","H","F"," ","E","N","E","R","G","Y"," ","I","S"," ",
      " "," "," "," ","-","1","4","8",".","5"," ","A","F","T","E","R"," "," ","1","2"," ","I",
      "T","E","R","A","T","I","O","N","S","\n">>

\* 'CCSD ENERGY:     -149.14370964   CORR. E:   -0.35206322\n'
L_CCSD1 ==
    <<"C","C","S","D"," ","E","N","E","R","G","Y",":"," "," "," "," "," ","-","1","4","9",".",
      "1","4","3","7","0","9","6","4"," "," "," ","C","O","R","R","."," ","E",":"," "," "," ",
      "-","0",".","3","5","2","0","6","3","2","2","\n">>

\* ' CCSD ENERGY:     -2.5   CORR. E:   -0.5\n'
L_CCSD2 ==
    <<" ","C","C","S","D"," ","E","N","E","R","G","Y",":"," "," "," "," "," ","-","2",".","5",
      " "," "," ","C","O","R","R","."," ","E",":"," "," "," ","-","0",".","5","\n">>

\* ' THE POINT GROUP OF THE MOLECULE IS DNH\n'
L_PG_DNH ==
    <<" ","T","H","E"," ","P","O","I","N","T"," ","G","R","O","U","P"," ","O","F"," ","T","H",
      "E"," ","M","O","L","E","C","U","L","E"," ","I","S"," ","D","N","H","\n">>

\* ' THE POINT GROUP OF THE MOLECULE IS C1\n'
L_PG_C1 ==
    <<" ","T","H","E"," ","P","O","I","N","T"," ","G","R","O","U","P"," ","O","F"," ","T","H",
      "E"," ","M","O","L","E","C","U","L","E"," ","I","S"," ","C","1","\n">>

\* ' THE ORDER OF THE PRINCIPAL AXIS IS     3\n'
L_AX3 ==
    <<" ","T","H","E"," ","O","R","D","E","R"," ","O","F"," ","T","H","E"," ","P","R","I","N",
      "C","I","P","A","L"," ","A","X","I","S"," ","I","S"," "," "," "," "," ","3","\n">>

\* ' THE ORDER OF THE PRINCIPAL AXIS IS     2\n'
L_AX2 ==
    <<" ","T","H","E"," ","O","R","D","E","R"," ","O","F"," ","T","H","E"," ","P","R","I","N",
      "C","I","P","A","L"," ","A","X","I","S"," ","I","S"," "," "," "," "," ","2","\n">>

\* ' BEGINNING DIP-EOMCC ITERATIONS FOR STATE 1\n'
L_CALC ==
    <<" ","B","E","G","I","N","N","I","N","G"," ","D","I","P","-","E","O","M","C","C"," ","I",
      "T","E","R","A","T","I","O","N","S"," ","F","O","R"," ","S","T","A","T","E"," ","1","\n">>

\* '   1.0   2.0\n'
L_NUM2B ==
    <<" "," "," ","1",".","0"," "," "," ","2",".","0","\n">>

\* ' ---- SUMMARY OF CCSD CALCULATIONS ----\n'
L_SUMCC ==
    <<" ","-","-","-","-"," ","S","U","M","M","A","R","Y"," ","O","F"," ","C","C","S","D"," ",
      "C","A","L","C","U","L","A","T","I","O","N","S"," ","-","-","-","-","\n">>

\* ' summary of ea-eomcc calculations\n'
L_SUMLC ==
    <<" ","s","u","m","m","a","r","y"," ","o","f"," ","e","a","-","e","o","m","c","c"," ","c",
      "a","l","c","u","l","a","t","i","o","n","s","\n">>

\* ' $EOMINP NSTATE=1 $END\n'
L_EOMINP ==
    <<" ","$","E","O","M","I","N","P"," ","N","S","T","A","T","E","=","1"," ","$","E","N","D",
      "\n">>

\* the lines of an orbital block
OrbLines == {L_EIGEN, L_MOLORB, L_BLANK, L_NUM2, L_NUM3, L_IRR2, L_IRR3, L_DASH}

\* the lines of a summary block, and an orbital landmark
EomLines == {L_SUM, L_ST1, L_ST2, L_HDR, L_BAD, L_BLANK, L_EIGEN}

\* the lines of the scalar fields
ScalarLines ==
    {L_REF1, L_REF2, L_ROHF, L_CCSD1, L_CCSD2, L_PG_DNH, L_PG_C1, L_AX3, L_AX2, L_CALC, L_DASH}

\* the lines of an orbital block with two numeric rows of the same count
BufLines == {L_EIGEN, L_NUM2, L_NUM2B, L_NUM3, L_IRR2, L_IRR3, L_BLANK}

\* the lines of summary blocks of several methods
SumLines == {L_SUM, L_SUMCC, L_SUMLC, L_ST1, L_HDR, L_BLANK}

\* the lines main's extraction sequence looks for
MainLines == {L_REF1, L_CCSD1, L_PG_DNH, L_AX3, L_CALC, L_EOMINP, L_DASH}

AllLines == OrbLines \cup EomLines \cup ScalarLines \cup BufLines \cup SumLines \cup MainLines

(***************************************************************************)
(* What the loop bodies compute from a line alone (their searches, tests   *)
(* and splits), computed once for each input line.  The loop bodies below  *)
(* take a line as this record.                                             *)
(***************************************************************************)
Scan(line) ==
    [m_ref             |-> re_ref(line),
     m_ccsd            |-> re_ccsd(line),
     m_pg              |-> re_pg(line),
     m_ax              |-> re_axis_order(line),
     mo_landmark       |-> is_mo_landmark(line),
     raw               |-> Strip(line),
     float_vals        |-> parse_float_line(Strip(line)),
     irrep_list        |-> line_is_irrep_list(Strip(line)),
     tokens            |-> Split(Strip(line)),
     eom_summary_begin |-> re_eom_summary_begin(line),
     m_eom             |-> re_eom_state(line),
     split             |-> Split(line),
     has_reference     |-> Contains(line, S_REFERENCE_ENERGY),
     has_ccsd          |-> Contains(line, S_CCSD_ENERGY),
     has_point_group   |-> Contains(line, S_POINT_GROUP),
     has_axis_order    |-> Contains(line, S_AXIS_ORDER),
     calc              |-> get_calc_pattern(line),
     has_EOMINP        |-> Contains(line, S_EOMINP)]

ScanTable == {<<line, Scan(line)>> : line \in AllLines}

Scanned(line) == (CHOOSE p \in ScanTable : p[1] = line)[2]

(***************************************************************************)
(* The functions of parse-gamess-output.py.  Each owns a frame of locals;  *)
(* status is "running" while its loop reads lines, "returned" after its    *)
(* return statement, or the name of the exception that ended it; result is *)
(* None until it returns.                                                  *)
(***************************************************************************)

\* parse_mo_data(f): the locals before the loop
parse_mo_data_locals ==
    [in_mo_block |-> FALSE, energies_buffer |-> None, mo_energies |-> <<>>, mo_irreps |-> <<>>,
     status |-> "running", result |-> None]

\* a variant of the iteration below with one slip: the two counts are not compared
parse_mo_data_body_nocount(v, line) ==
    LET raw        == line.raw
        float_vals == line.float_vals
        tokens     == line.tokens
    IN  IF line.mo_landmark
        THEN [v EXCEPT !.in_mo_block = TRUE, !.energies_buffer = None]
        ELSE IF ~v.in_mo_block THEN v
        ELSE IF raw = <<>> THEN v
        ELSE IF float_vals # None /\ Len(float_vals[1]) > 0
        THEN [v EXCEPT !.energies_buffer = Some(float_vals[1])]
        ELSE IF line.irrep_list
        THEN IF Truthy(v.energies_buffer)
             THEN [v EXCEPT !.mo_energies = @ \o v.energies_buffer[1],
                            !.mo_irreps = @ \o tokens,
                            !.energies_buffer = None]
             ELSE [v EXCEPT !.energies_buffer = None]
        ELSE v

\* a variant of the iteration below with one slip: a landmark keeps the pending buffer
parse_mo_data_body_keepbuffer(v, line) ==
    LET raw        == line.raw
        float_vals == line.float_vals
        tokens     == line.tokens
    IN  IF line.mo_landmark
        THEN [v EXCEPT !.in_mo_block = TRUE]
        ELSE IF ~v.in_mo_block THEN v
        ELSE IF raw = <<>> THEN v
        ELSE IF float_vals # None /\ Len(float_vals[1]) > 0
        THEN [v EXCEPT !.energies_buffer = Some(float_vals[1])]
        ELSE IF line.irrep_list
        THEN IF Truthy(v.energies_buffer) /\ Len(tokens) = Len(v.energies_buffer[1])
             THEN [v EXCEPT !.mo_energies = @ \o v.energies_buffer[1],
                            !.mo_irreps = @ \o tokens,
                            !.energies_buffer = None]
             ELSE [v EXCEPT !.energies_buffer = None]
        ELSE v

\* a variant of the iteration below with one slip: a numeric row is kept only
\* when no buffer is pending
parse_mo_data_body_keepfirst(v, line) ==
    LET raw        == line.raw
        float_vals == line.float_vals
        tokens     == line.tokens
    IN  IF line.mo_landmark
        THEN [v EXCEPT !.in_mo_block = TRUE, !.energies_buffer = None]
        ELSE IF ~v.in_mo_block THEN v
        ELSE IF raw = <<>> THEN v
        ELSE IF float_vals # None /\ Len(float_vals[1]) > 0
        THEN IF v.energies_buffer = None
             THEN [v EXCEPT !.energies_buffer = Some(float_vals[1])]
             ELSE v
        ELSE IF line.irrep_list
        THEN IF Truthy(v.energies_buffer) /\ Len(tokens) = Len(v.energies_buffer[1])
             THEN [v EXCEPT !.mo_energies = @ \o v.energies_buffer[1],
                            !.mo_irreps = @ \o tokens,
                            !.energies_buffer = None]
             ELSE [v EXCEPT !.energies_buffer = None]
        ELSE v

\* a variant of the body below with one slip: a label row leaves the pending
\* buffer as it is
parse_mo_data_body_keeppending(v, line) ==
    LET raw        == line.raw
        float_vals == line.float_vals
        tokens     == line.tokens
    IN  IF line.mo_landmark
        THEN [v EXCEPT !.in_mo_block = TRUE, !.energies_buffer = None]
        ELSE IF ~v.in_mo_block THEN v
        ELSE IF raw = <<>> THEN v
        ELSE IF float_vals # None /\ Len(float_vals[1]) > 0
        THEN [v EXCEPT !.energies_buffer = Some(float_vals[1])]
        ELSE IF line.irrep_list
        THEN IF Truthy(v.energies_buffer) /\ Len(tokens) = Len(v.energies_buffer[1])
             THEN [v EXCEPT !.mo_energies = @ \o v.energies_buffer[1],
                            !.mo_irreps = @ \o tokens]
             ELSE v
        ELSE v

\* parse_mo_data(f): one iteration of `for line in f`
parse_mo_data_body(v, line) ==
    LET raw        == line.raw
        float_vals == line.float_vals
        tokens     == line.tokens
    IN  IF line.mo_landmark
        THEN [v EXCEPT !.in_mo_block = TRUE, !.energies_buffer = None]
        ELSE IF ~v.in_mo_block THEN v
        ELSE IF raw = <<>> THEN v
        ELSE IF float_vals # None /\ Len(float_vals[1]) > 0
        THEN [v EXCEPT !.energies_buffer = Some(float_vals[1])]
        ELSE IF line.irrep_list
        THEN IF Truthy(v.energies_buffer) /\ Len(tokens) = Len(v.energies_buffer[1])
             THEN [v EXCEPT !.mo_energies = @ \o v.energies_buffer[1],
                            !.mo_irreps = @ \o tokens,
                            !.energies_buffer = None]
             ELSE [v EXCEPT !.energies_buffer = None]
        ELSE v

\* parse_mo_data(f): return mo_energies, mo_irreps
parse_mo_data_return(v) ==
    [v EXCEPT !.status = "returned", !.result = Some(<<v.mo_energies, v.mo_irreps>>)]

\* parse_eom_states(f): the locals before the loop
parse_eom_states_locals ==
    [eom_states |-> <<>>, in_eom_summary |-> FALSE, status |-> "running", result |-> None]

\* parse_eom_states(f): one iteration of `for line in f`.  int() of a (\d+)
\* group cannot fail; float() of a ([-\d\.]+) group raises ValueError when the
\* group spells no number.
parse_eom_states_body(v, line) ==
    LET m_eom  == line.m_eom
        ion_en == Float(m_eom[1][3])
        tot_en == Float(m_eom[1][4])
    IN  IF line.eom_summary_begin THEN [v EXCEPT !.in_eom_summary = TRUE]
        ELSE IF ~v.in_eom_summary THEN v
        ELSE IF m_eom # None
        THEN IF IsNone(ion_en) \/ IsNone(tot_en)
             THEN [v EXCEPT !.status = "ValueError"]
             ELSE [v EXCEPT !.eom_states =
                       Append(@, <<IntOf(m_eom[1][1]), IntOf(m_eom[1][2]), ion_en[1], tot_en[1]>>)]
        ELSE IF line.raw = <<>> THEN [v EXCEPT !.in_eom_summary = FALSE]
        ELSE v

\* parse_eom_states(f): return eom_states
parse_eom_states_return(v) == [v EXCEPT !.status = "returned", !.result = Some(v.eom_states)]

\* get_reference(f): x is unbound before the loop
get_reference_locals == [x |-> None, status |-> "running", result |-> None]

\* get_reference(f): return x[2]
get_reference_return(v) ==
    IF v.x = None THEN [v EXCEPT !.status = "UnboundLocalError"]
    ELSE IF Len(v.x[1]) < 3 THEN [v EXCEPT !.status = "IndexError"]
    ELSE [v EXCEPT !.status = "returned", !.result = Some(v.x[1][3])]

\* get_reference(f): one iteration; `break` goes to the return statement
get_reference_body(v, line) ==
    IF line.has_reference
    THEN get_reference_return([v EXCEPT !.x = Some(line.split)])
    ELSE v

\* get_ccsd(f): x is unbound before the loop
get_ccsd_locals == [x |-> None, status |-> "running", result |-> None]

\* get_ccsd(f): return x[2],x[5]
get_ccsd_return(v) ==
    IF v.x = None THEN [v EXCEPT !.status = "UnboundLocalError"]
    ELSE IF Len(v.x[1]) < 6 THEN [v EXCEPT !.status = "IndexError"]
    ELSE [v EXCEPT !.status = "returned", !.result = Some(<<v.x[1][3], v.x[1][6]>>)]

\* get_ccsd(f): one iteration; `break` goes to the return statement
get_ccsd_body(v, line) ==
    IF line.has_ccsd
    THEN get_ccsd_return([v EXCEPT !.x = Some(line.split)])
    ELSE v

\* get_pointgroup(f): x and y are unbound before the loop
get_pointgroup_locals == [x |-> None, y |-> None, status |-> "running", result |-> None]

\* get_pointgroup(f): pg = x[7]; pg = pg.replace("N",y[7]); return pg
get_pointgroup_return(v) ==
    IF v.x = None THEN [v EXCEPT !.status = "UnboundLocalError"]
    ELSE IF Len(v.x[1]) < 8 THEN [v EXCEPT !.status = "IndexError"]
    ELSE IF v.y = None THEN [v EXCEPT !.status = "UnboundLocalError"]
    ELSE IF Len(v.y[1]) < 8 THEN [v EXCEPT !.status = "IndexError"]
    ELSE [v EXCEPT !.status = "returned",
                   !.result = Some(Replace(v.x[1][8], "N", v.y[1][8]))]

\* get_pointgroup(f): one iteration; `break` goes to the statements after the loop
get_pointgroup_body(v, line) ==
    IF line.has_point_group THEN [v EXCEPT !.x = Some(line.split)]
    ELSE IF line.has_axis_order
    THEN get_pointgroup_return([v EXCEPT !.y = Some(line.split)])
    ELSE v

\* get_calc(f): info is unbound before the loop
get_calc_locals == [info |-> None, status |-> "running", result |-> None]

\* get_calc(f): return info
get_calc_return(v) ==
    IF v.info = None THEN [v EXCEPT !.status = "UnboundLocalError"]
    ELSE [v EXCEPT !.status = "returned", !.result = v.info]

\* get_calc(f): one iteration; `break` goes to the return statement
get_calc_body(v, line) ==
    LET match == line.calc
    IN  IF match # None THEN get_calc_return([v EXCEPT !.info = match]) ELSE v


\* proceed_further(f): no locals before the loop
proceed_further_locals == [status |-> "running", result |-> None]

\* a variant of the gate below with one slip: the first operand of `or` is
\* left out, the test is 'EOMINP' in line
proceed_further_body_contains(v, line) ==
    IF line.has_EOMINP
    THEN [v EXCEPT !.status = "returned", !.result = Some(TRUE)]
    ELSE v

\* proceed_further(f): one iteration.  The condition `'eominp' or 'EOMINP' in
\* line` is `'eominp' or ('EOMINP' in line)`: the first operand is a non-empty
\* string, so the test on the line is never reached.
proceed_further_body(v, line) ==
    IF S_eominp # <<>> \/ line.has_EOMINP
    THEN [v EXCEPT !.status = "returned", !.result = Some(TRUE)]
    ELSE v

\* proceed_further(f): the else clause of the loop, return False
proceed_further_return(v) == [v EXCEPT !.status = "returned", !.result = Some(FALSE)]

\* main() of parse-gamess-output.py: its locals before the first extraction
main_locals ==
    [ref_e |-> None, pg |-> None, energies |-> None, irreps |-> None,
     ccsd_e |-> None, ccsd_corr |-> None, stat |-> None, calc |-> None,
     eom_states |-> None, status |-> "running", at |-> "get_reference"]

\* main(): the extraction sequence get_reference, get_pointgroup,
\* parse_mo_data, get_ccsd, proceed_further, get_calc, parse_eom_states, each
\* called on the whole list f (the arguments are the frames of these calls
\* when they end).  An exception of a call ends main there (status is its
\* name, at the call); a false gate ends it with sys.exit(0) (status "exit");
\* else main goes on to get_amplitudes (status "extracted"), where this
\* model of it stops.
main_body(ref, pgr, mo, cc, gate, calc, eom) ==
    LET v1 == [main_locals EXCEPT !.ref_e = ref.result, !.at = "get_pointgroup"]
        v2 == [v1 EXCEPT !.pg = pgr.result, !.at = "parse_mo_data"]
        v3 == [v2 EXCEPT !.energies = Some(mo.result[1][1]),
                         !.irreps = Some(mo.result[1][2]), !.at = "get_ccsd"]
        v4 == [v3 EXCEPT !.ccsd_e = Some(cc.result[1][1]),
                         !.ccsd_corr = Some(cc.result[1][2]), !.at = "proceed_further"]
        v5 == [v4 EXCEPT !.stat = gate.result, !.at = "get_calc"]
        v6 == [v5 EXCEPT !.calc = calc.result, !.at = "parse_eom_states"]
        v7 == [v6 EXCEPT !.eom_states = eom.result, !.at = "get_amplitudes"]
    IN  IF ref.status # "returned" THEN [main_locals EXCEPT !.status = ref.status]
        ELSE IF pgr.status # "returned" THEN [v1 EXCEPT !.status = pgr.status]
        ELSE IF mo.status # "returned" THEN [v2 EXCEPT !.status = mo.status]
        ELSE IF cc.status # "returned" THEN [v3 EXCEPT !.status = cc.status]
        ELSE IF gate.status # "returned" THEN [v4 EXCEPT !.status = gate.status]
        ELSE IF gate.result = Some(FALSE)
        THEN [v4 EXCEPT !.stat = gate.result, !.status = "exit"]
        ELSE IF calc.status # "returned" THEN [v5 EXCEPT !.status = calc.status]
        ELSE IF eom.status # "returned" THEN [v6 EXCEPT !.status = eom.status]
        ELSE [v7 EXCEPT !.status = "extracted"]
(***************************************************************************)
(* parse_gamess_output(filename) of parse.py: one pass that updates the    *)
(* scalars, the orbital block and the summary block on every line.         *)
(***************************************************************************)
parse_gamess_output_locals ==
    [reference_energy |-> None, ccsd_energy |-> None, point_group |-> None,
     axis_order_str |-> None, mo_energies |-> <<>>, mo_irreps |-> <<>>, eom_states |-> <<>>,
     in_mo_block |-> FALSE, in_eom_summary |-> FALSE, energies_buffer |-> None,
     status |-> "running", result |-> None]

\* steps 1) to 4) of the loop body: the four scalar checks.  float() of a
\* ([-\d\.]+) group raises ValueError when the group spells no number.
pgo_scalars(v, line) ==
    LET m_ref  == line.m_ref
        m_ccsd == line.m_ccsd
        m_pg   == line.m_pg
        m_ax   == line.m_ax
        ref    == Float(m_ref[1])
        ccsd   == Float(m_ccsd[1])
    IN  IF m_ref # None /\ IsNone(ref) THEN [v EXCEPT !.status = "ValueError"]
        ELSE IF m_ccsd # None /\ IsNone(ccsd) THEN [v EXCEPT !.status = "ValueError"]
        ELSE [v EXCEPT
                !.reference_energy = IF m_ref # None THEN ref ELSE @,
                !.ccsd_energy      = IF m_ccsd # None THEN ccsd ELSE @,
                !.point_group      = IF m_pg # None THEN Some(Strip(Upper(m_pg[1]))) ELSE @,
                !.axis_order_str   = IF m_ax # None THEN Some(Strip(m_ax[1])) ELSE @]

\* a variant of the orbital block below with one slip: the values are added as
\* soon as a numeric row is read, the labels when a label row of that count follows
pgo_mo_block_eager(v, line) ==
    LET raw        == line.raw
        float_vals == line.float_vals
        tokens     == line.tokens
    IN  IF line.mo_landmark
        THEN [v |-> [v EXCEPT !.in_mo_block = TRUE, !.energies_buffer = None], cont |-> TRUE]
        ELSE IF ~v.in_mo_block THEN [v |-> v, cont |-> FALSE]
        ELSE IF raw = <<>> THEN [v |-> v, cont |-> TRUE]
        ELSE IF float_vals # None /\ Len(float_vals[1]) > 0
        THEN [v |-> [v EXCEPT !.energies_buffer = Some(float_vals[1]),
                              !.mo_energies = @ \o float_vals[1]], cont |-> TRUE]
        ELSE IF line.irrep_list
        THEN [v |-> IF Truthy(v.energies_buffer) /\ Len(tokens) = Len(v.energies_buffer[1])
                    THEN [v EXCEPT !.mo_irreps = @ \o tokens,
                                   !.energies_buffer = None]
                    ELSE [v EXCEPT !.energies_buffer = None],
              cont |-> TRUE]
        ELSE [v |-> v, cont |-> FALSE]

\* a variant of the orbital block below with one slip: a blank line closes
\* the block
pgo_mo_block_blankcloses(v, line) ==
    LET raw        == line.raw
        float_vals == line.float_vals
        tokens     == line.tokens
    IN  IF line.mo_landmark
        THEN [v |-> [v EXCEPT !.in_mo_block = TRUE, !.energies_buffer = None], cont |-> TRUE]
        ELSE IF ~v.in_mo_block THEN [v |-> v, cont |-> FALSE]
        ELSE IF raw = <<>> THEN [v |-> [v EXCEPT !.in_mo_block = FALSE], cont |-> TRUE]
        ELSE IF float_vals # None /\ Len(float_vals[1]) > 0
        THEN [v |-> [v EXCEPT !.energies_buffer = Some(float_vals[1])], cont |-> TRUE]
        ELSE IF line.irrep_list
        THEN [v |-> IF Truthy(v.energies_buffer) /\ Len(tokens) = Len(v.energies_buffer[1])
                    THEN [v EXCEPT !.mo_energies = @ \o v.energies_buffer[1],
                                   !.mo_irreps = @ \o tokens,
                                   !.energies_buffer = None]
                    ELSE [v EXCEPT !.energies_buffer = None],
              cont |-> TRUE]
        ELSE [v |-> v, cont |-> FALSE]

\* a variant of the orbital block below with one slip: a blank line drops the
\* pending buffer
pgo_mo_block_blankclears(v, line) ==
    LET raw        == line.raw
        float_vals == line.float_vals
        tokens     == line.tokens
    IN  IF line.mo_landmark
        THEN [v |-> [v EXCEPT !.in_mo_block = TRUE, !.energies_buffer = None], cont |-> TRUE]
        ELSE IF ~v.in_mo_block THEN [v |-> v, cont |-> FALSE]
        ELSE IF raw = <<>> THEN [v |-> [v EXCEPT !.energies_buffer = None], cont |-> TRUE]
        ELSE IF float_vals # None /\ Len(float_vals[1]) > 0
        THEN [v |-> [v EXCEPT !.energies_buffer = Some(float_vals[1])], cont |-> TRUE]
        ELSE IF line.irrep_list
        THEN [v |-> IF Truthy(v.energies_buffer) /\ Len(tokens) = Len(v.energies_buffer[1])
                    THEN [v EXCEPT !.mo_energies = @ \o v.energies_buffer[1],
                                   !.mo_irreps = @ \o tokens,
                                   !.energies_buffer = None]
                    ELSE [v EXCEPT !.energies_buffer = None],
              cont |-> TRUE]
        ELSE [v |-> v, cont |-> FALSE]

\* step 5) and the orbital block: [v, cont], cont TRUE when the iteration
\* ends with `continue`
pgo_mo_block(v, line) ==
    LET raw        == line.raw
        float_vals == line.float_vals
        tokens     == line.tokens
    IN  IF line.mo_landmark
        THEN [v |-> [v EXCEPT !.in_mo_block = TRUE, !.energies_buffer = None], cont |-> TRUE]
        ELSE IF ~v.in_mo_block THEN [v |-> v, cont |-> FALSE]
        ELSE IF raw = <<>> THEN [v |-> v, cont |-> TRUE]
        ELSE IF float_vals # None /\ Len(float_vals[1]) > 0
        THEN [v |-> [v EXCEPT !.energies_buffer = Some(float_vals[1])], cont |-> TRUE]
        ELSE IF line.irrep_list
        THEN [v |-> IF Truthy(v.energies_buffer) /\ Len(tokens) = Len(v.energies_buffer[1])
                    THEN [v EXCEPT !.mo_energies = @ \o v.energies_buffer[1],
                                   !.mo_irreps = @ \o tokens,
                                   !.energies_buffer = None]
                    ELSE [v EXCEPT !.energies_buffer = None],
              cont |-> TRUE]
        ELSE [v |-> v, cont |-> FALSE]

\* step 6) and the summary block
pgo_eom_summary(v, line) ==
    LET m_eom  == line.m_eom
        ion_en == Float(m_eom[1][3])
        tot_en == Float(m_eom[1][4])
    IN  IF line.eom_summary_begin THEN [v EXCEPT !.in_eom_summary = TRUE]
        ELSE IF ~v.in_eom_summary THEN v
        ELSE IF m_eom # None
        THEN IF IsNone(ion_en) \/ IsNone(tot_en)
             THEN [v EXCEPT !.status = "ValueError"]
             ELSE [v EXCEPT !.eom_states =
                       Append(@, <<IntOf(m_eom[1][1]), IntOf(m_eom[1][2]), ion_en[1], tot_en[1]>>)]
        ELSE IF line.raw = <<>> THEN [v EXCEPT !.in_eom_summary = FALSE]
        ELSE v

\* one iteration of `for line in f`
parse_gamess_output_body(v, line) ==
    LET s == pgo_scalars(v, line)
        m == pgo_mo_block(s, line)
    IN  IF s.status # "running" THEN s
        ELSE IF m.cont THEN m.v
        ELSE pgo_eom_summary(m.v, line)

\* the statements after the loop: the point-group substitution and the return
parse_gamess_output_return(v) ==
    LET point_group ==
            IF Truthy(v.point_group) /\ Truthy(v.axis_order_str)
               /\ Contains(v.point_group[1], <<"N">>)
            THEN Some(Replace(v.point_group[1], "N", v.axis_order_str[1]))
            ELSE v.point_group
    IN  [v EXCEPT !.status = "returned",
                  !.point_group = point_group,
                  !.result = Some([reference_energy |-> v.reference_energy,
                                   ccsd_energy |-> v.ccsd_energy,
                                   point_group |-> point_group,
                                   mo_energies |-> v.mo_energies,
                                   mo_irreps |-> v.mo_irreps,
                                   eom_states |-> v.eom_states])]

\* the longest input of each specification
MaxLinesOrb == 5

MaxLinesEom == 5

MaxLinesScalar == 4

MaxLines == 3

MaxLinesBuf == 5

MaxLinesSum == 4

MaxLinesMain == 5

(***************************************************************************)
(* The state: f is the part of the input read so far (every function       *)
(* iterates over the same immutable list of lines, so each frame below is  *)
(* that function's frame after it has read f, or its final frame if it     *)
(* ended earlier); pc is "reading" until the end of the input.             *)
(***************************************************************************)
VARIABLES f, pc, parse_gamess_output, parse_mo_data, parse_eom_states,
          get_reference, get_ccsd, get_pointgroup, get_calc, proceed_further, main

vars == <<f, pc, parse_gamess_output, parse_mo_data, parse_eom_states,
          get_reference, get_ccsd, get_pointgroup, get_calc, proceed_further, main>>

Init ==
    /\ f = <<>>
    /\ pc = "reading"
    /\ parse_gamess_output = parse_gamess_output_locals
    /\ parse_mo_data = parse_mo_data_locals
    /\ parse_eom_states = parse_eom_states_locals
    /\ get_reference = get_reference_locals
    /\ get_ccsd = get_ccsd_locals
    /\ get_pointgroup = get_pointgroup_locals
    /\ get_calc = get_calc_locals
    /\ proceed_further = proceed_further_locals
    /\ main = main_locals

\* The next line of the input is read by every loop still running (a frame
\* that has returned or raised reads no further line).
ReadLine(text, max) ==
    LET line == Scanned(text)
    IN  /\ pc = "reading"
        /\ Len(f) < max
        /\ f' = Append(f, text)
        /\ pc' = pc
        /\ parse_gamess_output' = IF parse_gamess_output.status = "running"
                                 THEN parse_gamess_output_body(parse_gamess_output, line) ELSE parse_gamess_output
        /\ parse_mo_data' = IF parse_mo_data.status = "running"
                           THEN parse_mo_data_body(parse_mo_data, line) ELSE parse_mo_data
        /\ parse_eom_states' = IF parse_eom_states.status = "running"
                              THEN parse_eom_states_body(parse_eom_states, line) ELSE parse_eom_states
        /\ get_reference' = IF get_reference.status = "running"
                           THEN get_reference_body(get_reference, line) ELSE get_reference
        /\ get_ccsd' = IF get_ccsd.status = "running"
                      THEN get_ccsd_body(get_ccsd, line) ELSE get_ccsd
        /\ get_pointgroup' = IF get_pointgroup.status = "running"
                            THEN get_pointgroup_body(get_pointgroup, line) ELSE get_pointgroup
        /\ get_calc' = IF get_calc.status = "running"
                      THEN get_calc_body(get_calc, line) ELSE get_calc
        /\ proceed_further' = IF proceed_further.status = "running"
                             THEN proceed_further_body(proceed_further, line) ELSE proceed_further
        /\ main' = main

\* The input ends: every loop still running ends, and the statements after
\* it are run; main, which calls the functions of parse-gamess-output.py one
\* after the other on the whole input, is run on what they end with.
EndOfInput ==
    /\ pc = "reading"
    /\ pc' = "done"
    /\ f' = f
    /\ parse_gamess_output' = IF parse_gamess_output.status = "running"
                             THEN parse_gamess_output_return(parse_gamess_output) ELSE parse_gamess_output
    /\ parse_mo_data' = IF parse_mo_data.status = "running"
                       THEN parse_mo_data_return(parse_mo_data) ELSE parse_mo_data
    /\ parse_eom_states' = IF parse_eom_states.status = "running"
                          THEN parse_eom_states_return(parse_eom_states) ELSE parse_eom_states
    /\ get_reference' = IF get_reference.status = "running"
                       THEN get_reference_return(get_reference) ELSE get_reference
    /\ get_ccsd' = IF get_ccsd.status = "running"
                  THEN get_ccsd_return(get_ccsd) ELSE get_ccsd
    /\ get_pointgroup' = IF get_pointgroup.status = "running"
                        THEN get_pointgroup_return(get_pointgroup) ELSE get_pointgroup
    /\ get_calc' = IF get_calc.status = "running"
                  THEN get_calc_return(get_calc) ELSE get_calc
    /\ proceed_further' = IF proceed_further.status = "running"
                         THEN proceed_further_return(proceed_further) ELSE proceed_further
    /\ main' = main_body(get_reference', get_pointgroup', parse_mo_data', get_ccsd',
                         proceed_further', get_calc', parse_eom_states')

ReadOrb == \E text \in OrbLines : ReadLine(text, MaxLinesOrb)

ReadEom == \E text \in EomLines : ReadLine(text, MaxLinesEom)

ReadScalar == \E text \in ScalarLines : ReadLine(text, MaxLinesScalar)

ReadBuf == \E text \in BufLines : ReadLine(text, MaxLinesBuf)

ReadSum == \E text \in SumLines : ReadLine(text, MaxLinesSum)

ReadMain == \E text \in MainLines : ReadLine(text, MaxLinesMain)

ReadAny == \E text \in AllLines : ReadLine(text, MaxLines)

Next == ReadAny \/ EndOfInput

Spec == Init /\ [][Next]_vars

NextOrb == ReadOrb \/ EndOfInput

SpecOrb == Init /\ [][NextOrb]_vars

NextEom == ReadEom \/ EndOfInput

SpecEom == Init /\ [][NextEom]_vars

NextScalar == ReadScalar \/ EndOfInput

SpecScalar == Init /\ [][NextScalar]_vars

NextBuf == ReadBuf \/ EndOfInput

SpecBuf == Init /\ [][NextBuf]_vars

NextSum == ReadSum \/ EndOfInput

SpecSum == Init /\ [][NextSum]_vars

NextMain == ReadMain \/ EndOfInput

SpecMain == Init /\ [][NextMain]_vars


(***************************************************************************)
(* Properties of the orbital block (parse_mo_data, and the orbital part of *)
(* parse_gamess_output), checked under SpecOrb.                            *)
(***************************************************************************)

\* the line a step reads, when it reads one
ReadsALine == pc = "reading" /\ Len(f') = Len(f) + 1

LineRead == Scanned(f'[Len(f')])

\* the line read before it
LineBefore == Scanned(f[Len(f)])

\* the rows of the orbital block, as the loop bodies classify them
IsLandmarkRow(line) == line.mo_landmark

IsNumericRow(line) ==
    /\ ~line.mo_landmark
    /\ line.raw # <<>>
    /\ line.float_vals # None
    /\ Len(line.float_vals[1]) > 0

IsLabelRow(line) ==
    /\ ~line.mo_landmark
    /\ line.raw # <<>>
    /\ ~IsNumericRow(line)
    /\ line.irrep_list

\* a list that is `before` with n more entries
GrowsBy(before, after, n) ==
    /\ Len(after) = Len(before) + n
    /\ SubSeq(after, 1, Len(before)) = before

\* the frames of the two block extractors, before and after a step
BlockFrames == <<parse_mo_data, parse_gamess_output>>

BlockFramesAfter == <<parse_mo_data', parse_gamess_output'>>

C1_Grow(i) ==
    LET k == Len(LineBefore.float_vals[1])
        n == IF Len(LineRead.tokens) = k THEN k ELSE 0
    IN  /\ GrowsBy(BlockFrames[i].mo_energies, BlockFramesAfter[i].mo_energies, n)
        /\ GrowsBy(BlockFrames[i].mo_irreps, BlockFramesAfter[i].mo_irreps, n)
        /\ BlockFramesAfter[i].status = "running"

\* C1: inside the orbital block, a label row of k tokens read right after a
\* numeric row of k values makes the energy list and the label list of
\* parse_mo_data and of parse_gamess_output each grow by exactly k entries; a
\* label row of another count makes them grow by none, and nothing is raised.
C1_PairingStep ==
    [][ (/\ ReadsALine
         /\ Len(f) >= 1
         /\ IsNumericRow(LineBefore)
         /\ IsLabelRow(LineRead))
        => \A i \in 1..2 :
               (BlockFrames[i].status = "running" /\ BlockFrames[i].in_mo_block)
                   => C1_Grow(i) ]_vars

\* C1's case: inside the block, L_NUM2 then L_IRR2 were the last lines read
\* and both extractors hold two energies and two labels; before them L_NUM3
\* then L_IRR2 had added nothing.
C1_Witness ==
    /\ f = <<L_EIGEN, L_NUM3, L_IRR2, L_NUM2, L_IRR2>>
    /\ pc = "reading"
    /\ \A i \in 1..2 :
          /\ BlockFrames[i].in_mo_block
          /\ Len(BlockFrames[i].mo_energies) = 2
          /\ Len(BlockFrames[i].mo_irreps) = 2

C2_SameLength(v) == Len(v.mo_energies) = Len(v.mo_irreps)

\* one step either leaves both lists alone or appends the whole pending
\* buffer to the energies and as many labels to the labels
C2_WholePairing(v, w) ==
    \/ w.mo_energies = v.mo_energies /\ w.mo_irreps = v.mo_irreps
    \/ /\ Truthy(v.energies_buffer)
       /\ w.mo_energies = v.mo_energies \o v.energies_buffer[1]
       /\ GrowsBy(v.mo_irreps, w.mo_irreps, Len(v.energies_buffer[1]))

\* C2: after every prefix of every line sequence the energy list and the
\* label list of each extractor have the same length, and every step that
\* changes one of them appends the whole pending buffer to the energies and
\* the same number of labels to the labels (no partial merge); the lists
\* returned at the end of the input have the same length too.
C2_PairedList ==
    /\ [](\A i \in 1..2 : C2_SameLength(BlockFrames[i]))
    /\ [][\A i \in 1..2 : C2_WholePairing(BlockFrames[i], BlockFramesAfter[i])]_vars
    /\ [](pc = "done" =>
            /\ Len(parse_mo_data.result[1][1]) = Len(parse_mo_data.result[1][2])
            /\ parse_gamess_output.status = "returned" =>
                   Len(parse_gamess_output.result[1].mo_energies)
                       = Len(parse_gamess_output.result[1].mo_irreps))

\* C2's case: a pairing of three, a numeric row left unpaired by a label row
\* of another count, and the end of the input
C2_Witness ==
    /\ f = <<L_MOLORB, L_NUM3, L_IRR3, L_NUM2, L_IRR3>>
    /\ pc = "done"
    /\ Len(parse_mo_data.result[1][1]) = 3
    /\ Len(parse_gamess_output.result[1].mo_irreps) = 3

\* the lines of f after its last landmark line hold no numeric row
C8_NoNumericSinceLandmark ==
    \E j \in 1..Len(f) :
        /\ IsLandmarkRow(Scanned(f[j]))
        /\ \A k \in (j + 1)..Len(f) : ~IsNumericRow(Scanned(f[k]))

\* C8: a landmark line, read outside or inside the block, leaves each
\* extractor inside the block with no pending buffer; and a label row read
\* when no numeric row was read since the last landmark line adds nothing:
\* a numeric row before a landmark is never paired with a label row after it.
C8_LandmarkDiscards ==
    [][ ReadsALine =>
          \A i \in 1..2 : BlockFrames[i].status = "running" =>
             /\ IsLandmarkRow(LineRead) =>
                   /\ BlockFramesAfter[i].in_mo_block
                   /\ BlockFramesAfter[i].energies_buffer = None
                   /\ BlockFramesAfter[i].mo_energies = BlockFrames[i].mo_energies
                   /\ BlockFramesAfter[i].mo_irreps = BlockFrames[i].mo_irreps
             /\ (IsLabelRow(LineRead) /\ C8_NoNumericSinceLandmark) =>
                   /\ BlockFramesAfter[i].mo_energies = BlockFrames[i].mo_energies
                   /\ BlockFramesAfter[i].mo_irreps = BlockFrames[i].mo_irreps ]_vars

\* C8's case: a numeric row, then a landmark inside the block, then a label
\* row of the same count: nothing was paired
C8_Witness ==
    /\ f = <<L_EIGEN, L_NUM2, L_MOLORB, L_IRR2>>
    /\ \A i \in 1..2 :
          /\ BlockFrames[i].mo_energies = <<>>
          /\ BlockFrames[i].mo_irreps = <<>>
          /\ BlockFrames[i].energies_buffer = None

(***************************************************************************)
(* Properties of the summary block (parse_eom_states, and the summary part *)
(* of parse_gamess_output), checked under SpecEom.                         *)
(***************************************************************************)

\* the rows of the summary block
IsSummaryLandmark(line) == line.eom_summary_begin

IsBlankLine(line) == line.raw = <<>>

\* a row of the shape int int float float CONVERGED
IsStateRow(line) ==
    /\ ~IsSummaryLandmark(line)
    /\ line.m_eom # None
    /\ Float(line.m_eom[1][3]) # None
    /\ Float(line.m_eom[1][4]) # None

StateRecord(line) ==
    <<IntOf(line.m_eom[1][1]), IntOf(line.m_eom[1][2]),
      Float(line.m_eom[1][3])[1], Float(line.m_eom[1][4])[1]>>

\* line i of f comes after a summary landmark with no blank line between
SummaryOpenAt(i) ==
    \E j \in 1..(i - 1) :
        /\ IsSummaryLandmark(Scanned(f[j]))
        /\ \A k \in (j + 1)..(i - 1) : ~IsBlankLine(Scanned(f[k]))

\* the records of the rows of f of that shape read while the block is open,
\* in the order of f
RowsOfOpenBlocks ==
    LET idx    == {i \in 1..Len(f) : SummaryOpenAt(i) /\ IsStateRow(Scanned(f[i]))}
        nth(n) == CHOOSE i \in idx : Cardinality({j \in idx : j < i}) = n - 1
    IN  [n \in 1..Cardinality(idx) |-> StateRecord(Scanned(f[nth(n)]))]

\* C3: parse_eom_states returns exactly the records of the rows of the shape
\* int int float float CONVERGED read while the summary block is open (after
\* a summary landmark, before the next blank line), in file order, the
\* blocks concatenated; any other non-blank row in a block adds no record
\* and closes nothing.
C3_TableExtractor ==
    pc = "done" =>
        /\ parse_eom_states.status = "returned"
        /\ parse_eom_states.result = Some(RowsOfOpenBlocks)

\* C4: in parse_gamess_output a blank line read while the summary block is
\* open closes it, whatever the state of the orbital block.
C4_BlankClosesSummary ==
    [][ (/\ ReadsALine
         /\ parse_gamess_output.status = "running"
         /\ parse_gamess_output.in_eom_summary
         /\ IsBlankLine(LineRead))
        => ~parse_gamess_output'.in_eom_summary ]_vars

\* C5: on the same lines parse_gamess_output and parse_eom_states return the
\* same sequence of state records.
C5_SameStateRecords ==
    (/\ pc = "done"
     /\ parse_gamess_output.status = "returned"
     /\ parse_eom_states.status = "returned")
        => parse_gamess_output.result[1].eom_states = parse_eom_states.result[1]

(***************************************************************************)
(* Properties of the scalar fields (get_reference, get_ccsd,               *)
(* get_pointgroup, get_calc, and the scalar part of parse_gamess_output),  *)
(* checked under SpecScalar.                                               *)
(***************************************************************************)

\* the lines of f that each search of parse-gamess-output.py matches
ReferenceLines == {i \in 1..Len(f) : Scanned(f[i]).has_reference}

CcsdLines == {i \in 1..Len(f) : Scanned(f[i]).has_ccsd}

PointGroupLines == {i \in 1..Len(f) : Scanned(f[i]).has_point_group}

AxisOrderLines == {i \in 1..Len(f) : Scanned(f[i]).has_axis_order}

CalcLines == {i \in 1..Len(f) : Scanned(f[i]).calc # None}

\* the lines of f that each search of parse.py matches
RefMatches == {i \in 1..Len(f) : Scanned(f[i]).m_ref # None}

CcsdMatches == {i \in 1..Len(f) : Scanned(f[i]).m_ccsd # None}

PgMatches == {i \in 1..Len(f) : Scanned(f[i]).m_pg # None}

AxisMatches == {i \in 1..Len(f) : Scanned(f[i]).m_ax # None}

First(S) == CHOOSE i \in S : \A j \in S : i <= j

Last(S) == CHOOSE i \in S : \A j \in S : j <= i

ScalarLandmarkLines ==
    ReferenceLines \cup CcsdLines \cup PointGroupLines \cup AxisOrderLines \cup CalcLines
        \cup RefMatches \cup CcsdMatches \cup PgMatches \cup AxisMatches

\* C6: on an input with no scalar landmark line (the empty input too) every
\* scalar extractor returns a value that says "not found" and none raises.
C6_NotFoundIsAValue ==
    (pc = "done" /\ ScalarLandmarkLines = {}) =>
        /\ get_reference.status = "returned"
        /\ get_ccsd.status = "returned"
        /\ get_pointgroup.status = "returned"
        /\ get_calc.status = "returned"
        /\ parse_gamess_output.status = "returned"
        /\ parse_gamess_output.result[1].reference_energy = None
        /\ parse_gamess_output.result[1].ccsd_energy = None
        /\ parse_gamess_output.result[1].point_group = None

\* the symbol and the axis order that each extractor reads on line i
SymbolOfGet(i) == Scanned(f[i]).split[8]

AxisOfGet(i) == Scanned(f[i]).split[8]

SymbolOfPgo(i) == Strip(Upper(Scanned(f[i]).m_pg[1]))

AxisOfPgo(i) == Strip(Scanned(f[i]).m_ax[1])

\* the composed point group: every N replaced by the axis order when there
\* is an axis order and the symbol holds an N, the symbol otherwise
Composed(symbol, axis) ==
    IF axis # None /\ Contains(symbol, <<"N">>)
    THEN Replace(symbol, "N", axis[1])
    ELSE symbol

\* C7: when a point-group symbol was found, the extractor returns it with
\* every N replaced by the axis order if an axis order was found too and the
\* symbol holds an N, and unchanged in every other case (no axis-order line
\* in the input, or no N in the symbol); it never raises.  (Which of several
\* symbol lines and axis-order lines is used is left open here.)
C7_Composition ==
    pc = "done" =>
        /\ PointGroupLines # {} =>
              /\ get_pointgroup.status = "returned"
              /\ \E i \in PointGroupLines :
                    \E axis \in {None} \cup {Some(AxisOfGet(j)) : j \in AxisOrderLines} :
                        /\ axis = None <=> AxisOrderLines = {}
                        /\ get_pointgroup.result = Some(Composed(SymbolOfGet(i), axis))
        /\ PgMatches # {} =>
              /\ parse_gamess_output.status = "returned"
              /\ \E i \in PgMatches :
                    \E axis \in {None} \cup {Some(AxisOfPgo(j)) : j \in AxisMatches} :
                        /\ axis = None <=> AxisMatches = {}
                        /\ parse_gamess_output.result[1].point_group
                               = Some(Composed(SymbolOfPgo(i), axis))

\* C9: the reference energy and the CCSD energy returned are those of the
\* first matching line of the input, whatever matching lines follow.
C9_FirstMatch ==
    pc = "done" =>
        /\ ReferenceLines # {} =>
              /\ get_reference.status = "returned"
              /\ get_reference.result
                     = Some(Scanned(f[First(ReferenceLines)]).split[3])
        /\ CcsdLines # {} =>
              /\ get_ccsd.status = "returned"
              /\ get_ccsd.result[1][1]
                     = Scanned(f[First(CcsdLines)]).split[3]
        /\ RefMatches # {} =>
              /\ parse_gamess_output.status = "returned"
              /\ parse_gamess_output.result[1].reference_energy
                     = Float(Scanned(f[First(RefMatches)]).m_ref[1])
        /\ CcsdMatches # {} =>
              /\ parse_gamess_output.status = "returned"
              /\ parse_gamess_output.result[1].ccsd_energy
                     = Float(Scanned(f[First(CcsdMatches)]).m_ccsd[1])

\* C10: the point-group symbol and the axis order of the composed point
\* group are those of the last point-group line and of the last axis-order
\* line of the whole input, in whatever order and number these lines come.
C10_LastMatch ==
    pc = "done" =>
        /\ (PointGroupLines # {} /\ AxisOrderLines # {}) =>
              /\ get_pointgroup.status = "returned"
              /\ get_pointgroup.result
                     = Some(Composed(SymbolOfGet(Last(PointGroupLines)),
                                     Some(AxisOfGet(Last(AxisOrderLines)))))
        /\ (PgMatches # {} /\ AxisMatches # {}) =>
              /\ parse_gamess_output.status = "returned"
              /\ parse_gamess_output.result[1].point_group
                     = Some(Composed(SymbolOfPgo(Last(PgMatches)),
                                     Some(AxisOfPgo(Last(AxisMatches)))))

\* C11: a row read while the summary block is open that cannot be parsed into
\* int int float float CONVERGED is skipped: it adds no record and raises
\* nothing, in parse_eom_states and in parse_gamess_output; so are the rows
\* whose energy fields are made of digits, dots and minus signs but spell no
\* number.
C11_MalformedRowSkipped ==
    [][ (/\ ReadsALine
         /\ ~IsSummaryLandmark(LineRead)
         /\ ~IsStateRow(LineRead))
        => /\ (parse_eom_states.status = "running" /\ parse_eom_states.in_eom_summary)
                => /\ parse_eom_states'.status = "running"
                   /\ parse_eom_states'.eom_states = parse_eom_states.eom_states
           /\ (parse_gamess_output.status = "running" /\ parse_gamess_output.in_eom_summary)
                => /\ parse_gamess_output'.status = "running"
                   /\ parse_gamess_output'.eom_states = parse_gamess_output.eom_states ]_vars

(***************************************************************************)
(* Properties of main's extraction sequence and of its gate, checked under *)
(* SpecMain.                                                               *)
(***************************************************************************)

\* f holds one reference-energy line and one CCSD line and no other landmark
\* line of a scalar field
OnlyReferenceAndCcsd ==
    /\ Cardinality(ReferenceLines) = 1
    /\ Cardinality(CcsdLines) = 1
    /\ RefMatches = ReferenceLines
    /\ CcsdMatches = CcsdLines
    /\ ScalarLandmarkLines = ReferenceLines \cup CcsdLines

\* C12: on an input that holds only a reference-energy line and a CCSD line,
\* main yields the reference energy (the third token of the reference line),
\* the CCSD energy and the CCSD correlation energy (the third and the sixth
\* token of the CCSD line) and does not fail before it has them; and
\* parse_gamess_output returns the two energies as numbers.
C12_EndToEnd ==
    (pc = "done" /\ OnlyReferenceAndCcsd) =>
        LET ref_line  == Scanned(f[First(ReferenceLines)])
            ccsd_line == Scanned(f[First(CcsdLines)])
        IN  /\ main.ref_e = Some(ref_line.split[3])
            /\ main.ccsd_e = Some(ccsd_line.split[3])
            /\ main.ccsd_corr = Some(ccsd_line.split[6])
            /\ parse_gamess_output.status = "returned"
            /\ parse_gamess_output.result[1].reference_energy = Float(ref_line.split[3])
            /\ parse_gamess_output.result[1].ccsd_energy = Float(ccsd_line.split[3])

(***************************************************************************)
(* More properties of the orbital block, checked under SpecBuf and         *)
(* SpecOrb.                                                                *)
(***************************************************************************)

\* the last numeric row of f with no landmark line and no label row after
\* it, as an index of f; 0 when there is none
PendingRow ==
    LET S == {j \in 1..Len(f) :
                /\ IsNumericRow(Scanned(f[j]))
                /\ \A k \in (j + 1)..Len(f) :
                       /\ ~IsLandmarkRow(Scanned(f[k]))
                       /\ ~IsLabelRow(Scanned(f[k]))}
    IN  IF S = {} THEN 0 ELSE Last(S)

PendingValues == IF PendingRow = 0 THEN <<>> ELSE Scanned(f[PendingRow]).float_vals[1]

\* C14: inside the orbital block a numeric row replaces the pending buffer,
\* and a label row appends exactly the values of the last numeric row read
\* since the latest landmark line or label row, in their order, when it has
\* as many tokens (and nothing otherwise): the values of an earlier numeric
\* row of that span never reach the output.
C14_MostRecentNumericRow ==
    [][ ReadsALine =>
          \A i \in 1..2 :
             (BlockFrames[i].status = "running" /\ BlockFrames[i].in_mo_block) =>
                /\ IsNumericRow(LineRead) =>
                      BlockFramesAfter[i].energies_buffer = Some(LineRead.float_vals[1])
                /\ IsLabelRow(LineRead) =>
                      LET pairs == /\ PendingRow # 0
                                   /\ Len(LineRead.tokens) = Len(PendingValues)
                      IN  /\ BlockFramesAfter[i].mo_energies
                                = BlockFrames[i].mo_energies
                                    \o (IF pairs THEN PendingValues ELSE <<>>)
                          /\ BlockFramesAfter[i].mo_irreps
                                = BlockFrames[i].mo_irreps
                                    \o (IF pairs THEN LineRead.tokens ELSE <<>>) ]_vars

\* C14's case: two numeric rows of two values, then a label row of two
\* tokens: the values of the second row, and only they, are in the output
C14_Witness ==
    /\ f = <<L_EIGEN, L_NUM2B, L_NUM2, L_IRR2>>
    /\ \A i \in 1..2 :
          /\ BlockFrames[i].mo_energies = Scanned(L_NUM2).float_vals[1]
          /\ BlockFrames[i].mo_energies # Scanned(L_NUM2B).float_vals[1]
          /\ Len(BlockFrames[i].mo_irreps) = 2

\* the state of the orbital block of a frame
BlockState(v) == <<v.in_mo_block, v.energies_buffer, v.mo_energies, v.mo_irreps>>

\* C15: inside the orbital block a blank line, and a non-blank row that is
\* neither a landmark, a numeric row nor a label row, leave the block flag,
\* the pending buffer and both output lists of each extractor as they are
\* (so a numeric row still pairs with a label row of its count read after
\* any number of such rows).
C15_IgnoredRows ==
    [][ (/\ ReadsALine
         /\ ~IsLandmarkRow(LineRead)
         /\ ~IsNumericRow(LineRead)
         /\ ~IsLabelRow(LineRead))
        => \A i \in 1..2 :
              (BlockFrames[i].status = "running" /\ BlockFrames[i].in_mo_block) =>
                  BlockState(BlockFramesAfter[i]) = BlockState(BlockFrames[i]) ]_vars

\* C15's case: a numeric row, a separator row, a blank line, then a label
\* row of the same count: the pair is in the output
C15_Witness ==
    /\ f = <<L_EIGEN, L_NUM2, L_DASH, L_BLANK, L_IRR2>>
    /\ \A i \in 1..2 :
          /\ BlockFrames[i].mo_energies = Scanned(L_NUM2).float_vals[1]
          /\ BlockFrames[i].mo_irreps = Scanned(L_IRR2).tokens

\* a frame that has met no orbital landmark yet holds nothing
BlockUntouched(v) ==
    ~v.in_mo_block /\ v.energies_buffer = None /\ v.mo_energies = <<>> /\ v.mo_irreps = <<>>

\* C16: once a landmark has opened the orbital block of an extractor, every
\* later line leaves it open (no blank line, separator or banner closes it);
\* and up to its first landmark an extractor classifies no row: its buffer
\* and both output lists stay empty.
C16_BlockNeverCloses ==
    [][ ReadsALine =>
          \A i \in 1..2 :
              /\ BlockFrames[i].in_mo_block => BlockFramesAfter[i].in_mo_block
              /\ (BlockFrames[i].status = "running" /\ ~BlockFrames[i].in_mo_block) =>
                    /\ BlockUntouched(BlockFrames[i])
                    /\ BlockFramesAfter[i].in_mo_block = IsLandmarkRow(LineRead)
                    /\ ~IsLandmarkRow(LineRead) => BlockUntouched(BlockFramesAfter[i]) ]_vars

\* C16's case: the numeric row before the landmark added nothing, and after
\* the landmark a blank line was read before a numeric row and its label row,
\* which still paired
C16_Witness ==
    /\ f = <<L_NUM2, L_EIGEN, L_BLANK, L_NUM3, L_IRR3>>
    /\ \A i \in 1..2 :
          /\ BlockFrames[i].in_mo_block
          /\ BlockFrames[i].mo_energies = Scanned(L_NUM3).float_vals[1]
          /\ BlockFrames[i].mo_irreps = Scanned(L_IRR3).tokens

\* a line that reads `summary of <anything> <tail>`, in any letter case
SummaryOfForm(s, tail) ==
    \E i \in 1..Len(s) :
        LET a == WordsAt(s, i, <<W_SUMMARY, W_OF>>)
        IN  /\ a # 0
            /\ a <= Len(s)
            /\ s[a] \in Whitespace
            /\ \E q \in (a + 1)..Len(s) :
                  /\ \A k \in a..(q - 1) : s[k] # "\n"
                  /\ s[q - 1] \in Whitespace \/ Len(tail) > 1
                  /\ WordsAt(s, q, tail) # 0

\* the lines `summary of <anything> calculations`
SummaryOfCalculationsLines == {l \in SumLines : SummaryOfForm(l, <<W_CALCULATIONS>>)}

\* the lines `summary of <anything>EOMCC calculations`
SummaryOfEomccLines == {l \in SumLines : SummaryOfForm(l, <<W_EOMCC, W_CALCULATIONS>>)}

\* the frames of the two table extractors, before and after a step
SummaryFrames == <<parse_eom_states, parse_gamess_output>>

SummaryFramesAfter == <<parse_eom_states', parse_gamess_output'>>

\* C17 as stated: reading any line `summary of <anything> calculations`, in
\* any letter case and whatever the method name, puts both table extractors
\* inside the summary block.
C17_AnyMethodOpens ==
    [][ (ReadsALine /\ f'[Len(f')] \in SummaryOfCalculationsLines)
        => \A i \in 1..2 :
              SummaryFrames[i].status = "running" => SummaryFramesAfter[i].in_eom_summary ]_vars

\* C17, amended: reading a line `summary of <anything>EOMCC calculations`,
\* in any letter case, puts both table extractors inside the summary block;
\* no other line read outside the block does, a summary line of a method
\* whose name does not end in EOMCC included.
C17_EomccMethodOpens ==
    [][ ReadsALine
        => \A i \in 1..2 :
              SummaryFrames[i].status = "running" =>
                  /\ f'[Len(f')] \in SummaryOfEomccLines => SummaryFramesAfter[i].in_eom_summary
                  /\ (f'[Len(f')] \notin SummaryOfEomccLines /\ ~SummaryFrames[i].in_eom_summary)
                        => ~SummaryFramesAfter[i].in_eom_summary ]_vars

\* C17's case: the state row after the CCSD summary line was not taken, the
\* one after the lower-case ea-eomcc summary line was
C17_Witness ==
    /\ f = <<L_SUMCC, L_ST1, L_SUMLC, L_ST1>>
    /\ \A i \in 1..2 :
          /\ SummaryFrames[i].in_eom_summary
          /\ SummaryFrames[i].eom_states = <<StateRecord(Scanned(L_ST1))>>

\* the calls of main that come after the gate
AfterTheGate == {"get_calc", "parse_eom_states", "get_amplitudes"}

NoNumericSinceLabel ==
    \E j \in 1..Len(f) :
        /\ IsLabelRow(Scanned(f[j]))
        /\ \A k \in (j + 1)..Len(f) : ~IsNumericRow(Scanned(f[k]))

\* C19: every label row read inside the orbital block leaves the pending
\* buffer empty, whether its token count matched or not; so a label row read
\* when no numeric row came after the label row before it (one that directly
\* follows another label row above all) adds nothing to either list: a
\* numeric row is paired with at most one label row.
C19_LabelRowClears ==
    [][ (ReadsALine /\ IsLabelRow(LineRead))
        => \A i \in 1..2 :
              (BlockFrames[i].status = "running" /\ BlockFrames[i].in_mo_block) =>
                  /\ BlockFramesAfter[i].energies_buffer = None
                  /\ NoNumericSinceLabel =>
                        /\ BlockFramesAfter[i].mo_energies = BlockFrames[i].mo_energies
                        /\ BlockFramesAfter[i].mo_irreps = BlockFrames[i].mo_irreps ]_vars

\* C19's case: a label row of another count cleared the buffer of the
\* numeric row before it, and the label row of the right count that came
\* next paired nothing
C19_Witness ==
    /\ f = <<L_EIGEN, L_NUM2, L_IRR3, L_IRR2>>
    /\ \A i \in 1..2 :
          /\ BlockFrames[i].status = "running"
          /\ BlockFrames[i].in_mo_block
          /\ BlockFrames[i].energies_buffer = None
          /\ BlockFrames[i].mo_energies = <<>>
          /\ BlockFrames[i].mo_irreps = <<>>

\* C20: on every input parse_gamess_output and parse_mo_data produce the
\* same orbital-energy list and the same orbital-label list, and while they
\* read, the block flag, the pending buffer and the two lists of the single
\* pass equal those of parse_mo_data: the scalar and summary handling of the
\* single pass changes none of them.
C20_SameOrbitalLists ==
    /\ BlockState(parse_gamess_output) = BlockState(parse_mo_data)
    /\ pc = "done" =>
          /\ parse_mo_data.status = "returned"
          /\ parse_gamess_output.status = "returned"
          /\ parse_gamess_output.result[1].mo_energies = parse_mo_data.result[1][1]
          /\ parse_gamess_output.result[1].mo_irreps = parse_mo_data.result[1][2]
=============================================================================
